---------------------------- MODULE Spec2Model ----------------------------
(* A model of the customer-support chatbot: the response pipeline           *)
(* (src/src/rag_chain.py), the vector store adapter                         *)
(* (src/src/qdrant_client.py), the conversation store                       *)
(* (src/src/redis_memory.py, src/src/memory.py), and the chat loop and      *)
(* component initialization of the app (src/main.py).                       *)
(*                                                                          *)
(* Text is a sequence of one-character strings, so that lower(), strip()    *)
(* and the substring test of _is_greeting are computed, not assumed.        *)
(* Similarity scores are percentages (0.65 is 65).                          *)
EXTENDS Integers, Sequences, FiniteSets, TLC

VARIABLES
    query,      \* generate_response: the argument
    pc,         \* generate_response: "start" | "returned" | "raised"
    response,   \* generate_response: the returned dict, or NoResponse
    raised,     \* generate_response: the exception that left the call, or NoError
    calls,      \* generate_response: the collaborator calls made, in order
    branch,     \* generate_response: the return statement that produced the response
    threshold,  \* semantic_search: argument
    limit,      \* semantic_search: argument
    hits,       \* semantic_search: what client.search returned
    spc,        \* semantic_search: "start" | "returned" | "raised"
    filtered_results,  \* semantic_search: the returned list
    collection_scores, \* the vector store: similarity to the query of point k-1, for each k
    redis,      \* the key-value backend: key -> list of JSON strings (a missing key is <<>>)
    ttl,        \* the key-value backend: key -> its expiry, if one is set
    now,        \* the clock, in seconds
    mop,        \* conversation store: the last operation called, with its arguments
    mret,       \* conversation store: what that operation returned, or that it raised
    just_added, \* history: the turn stored by a successful add_message, when that was
                \* the operation right before the last one (else NothingAdded)
    points,     \* the collection in the vector store: point id -> [vector, payload]
    up_count,   \* upload_data: calls made so far
    up_args,    \* upload_data: the arguments of the last call
    up_log,     \* upload_data: the upload_points calls of the last call, in order
    up_ret,     \* upload_data: how the last call ended (returned, or the error raised)
    coll_exists,  \* the vector store: whether the collection exists
    init_count, \* init_components: runs so far
    init_ret,   \* init_components: what the last run probed, called and ended in
    prompts,    \* chat loop: prompts submitted so far
    shown,      \* chat loop: what the assistant bubble of the last prompt shows
    saves       \* chat loop: the add_message calls made for the last prompt, in order

uploadVars == <<points, up_count, up_args, up_log, up_ret>>
collectionVars == <<coll_exists, init_count, init_ret>>
chatVars   == <<prompts, shown, saves>>

memVars    == <<redis, ttl, now, mop, mret, just_added>>
ragVars    == <<query, pc, response, raised, calls, branch>>
searchVars == <<threshold, limit, hits, spc, filtered_results, collection_scores>>
vars       == <<ragVars, searchVars, memVars, uploadVars, collectionVars, chatVars>>

-----------------------------------------------------------------------------
(* Bounds *)
MaxQueryLen == 3
MaxHits     == 2

(* Small input sets *)
Alphabet == {"h", "i", "H", "!", "x"}
Scores   == {50, 65, 90}

Min(a, b) == IF a <= b THEN a ELSE b

RECURSIVE SeqsUpTo(_, _)
SeqsUpTo(S, n) ==
    IF n = 0 THEN {<<>>}
    ELSE LET shorter == SeqsUpTo(S, n - 1)
         IN  shorter \cup {Append(s, x) : s \in {t \in shorter : Len(t) = n - 1}, x \in S}

(* A query is a str, or (for a caller ignoring the annotation) None *)
Str(chars) == [type |-> "str", chars |-> chars]
NoneQuery  == [type |-> "NoneType", chars |-> <<>>]
Queries    == {Str(cs) : cs \in SeqsUpTo(Alphabet, MaxQueryLen)} \cup {NoneQuery}

(* Exceptions: str(e) is e.text *)
Error(type, text) == [type |-> type, text |-> text]
NoError    == Error("", "")
NoResponse == [answer |-> <<"<no response yet>">>, sources |-> <<>>]

-----------------------------------------------------------------------------
(* Python string operations used by _is_greeting *)

Lower(c) == CASE c = "H" -> "h"
              [] c = "I" -> "i"
              [] OTHER   -> c

str_lower(s) == [k \in 1..Len(s) |-> Lower(s[k])]

str_strip(s, chars) ==
    LET keep == {k \in 1..Len(s) : s[k] \notin chars}
    IN  IF keep = {} THEN <<>>
        ELSE LET first == CHOOSE k \in keep : \A j \in keep : k <= j
                 last  == CHOOSE k \in keep : \A j \in keep : k >= j
             IN  SubSeq(s, first, last)

str_contains(sub, s) ==
    \E k \in 1..(Len(s) - Len(sub) + 1) : SubSeq(s, k, k + Len(sub) - 1) = sub

greetings == <<
    <<"h","e","l","l","o">>,
    <<"h","i">>,
    <<"h","e","y">>,
    <<"g","r","e","e","t","i","n","g","s">>,
    <<"g","o","o","d"," ","m","o","r","n","i","n","g">>,
    <<"g","o","o","d"," ","a","f","t","e","r","n","o","o","n">>,
    <<"g","o","o","d"," ","e","v","e","n","i","n","g">>,
    <<"n","a","m","a","s","t","e">>,
    <<"s","a","l","a","m">>,
    <<"h","o","l","a">>,
    <<"h","i"," ","t","h","e","r","e">>,
    <<"h","e","l","l","o","o">> >>

StripChars == {" ", "?", "!", ".", ","}

normalize(text) == str_strip(str_lower(text), StripChars)

(* A greeting test by equality instead of substring *)
is_greeting_exact(text) ==
    \E g \in 1..Len(greetings) : greetings[g] = normalize(text)

is_greeting(text) ==
    \E g \in 1..Len(greetings) : str_contains(greetings[g], normalize(text))

-----------------------------------------------------------------------------
(* Vector store adapter: semantic_search *)

Payload(id) == [text |-> <<"faq", id>>, category |-> "returns"]

FormatHit(hit) ==
    [text     |-> hit.payload.text,
     metadata |-> [k \in (DOMAIN hit.payload) \ {"text"} |-> hit.payload[k]],
     score    |-> hit.score,
     id       |-> hit.id]

(* The filter loop, but keeping only scores strictly above the threshold *)
RECURSIVE FilterLoopStrict(_, _, _, _)
FilterLoopStrict(results, filtered, t, n) ==
    IF results = <<>> THEN filtered
    ELSE LET hit == Head(results)
         IN  IF hit.score > t
             THEN LET f2 == Append(filtered, FormatHit(hit))
                  IN  IF Len(f2) >= n THEN f2
                      ELSE FilterLoopStrict(Tail(results), f2, t, n)
             ELSE FilterLoopStrict(Tail(results), filtered, t, n)

(* lines 210-224: the filter loop over what client.search handed back *)
RECURSIVE FilterLoop(_, _, _, _)
FilterLoop(results, filtered, t, n) ==
    IF results = <<>> THEN filtered
    ELSE LET hit == Head(results)
         IN  IF hit.score >= t
             THEN LET f2 == Append(filtered, FormatHit(hit))
                  IN  IF Len(f2) >= n THEN f2
                      ELSE FilterLoop(Tail(results), f2, t, n)
             ELSE FilterLoop(Tail(results), filtered, t, n)

semantic_search(results, t, n) == FilterLoop(results, <<>>, t, n)

(* hybrid_search: the store's hits, formatted; no threshold is applied *)
hybrid_search(results) == [k \in DOMAIN results |-> FormatHit(results[k])]

DefaultThreshold == 70
DefaultLimit     == 3
KwArg(kwargs, name, default) == IF name \in DOMAIN kwargs THEN kwargs[name] ELSE default

(* search: routes on mode; q is the text query, results what client.search   *)
(* hands back, kwargs the keyword arguments passed through                   *)
search(results, q, mode, kwargs) ==
    CASE mode = "semantic" ->
            [ok |-> TRUE, err |-> NoError,
             results |-> semantic_search(results, KwArg(kwargs, "threshold", DefaultThreshold),
                                         KwArg(kwargs, "limit", DefaultLimit))]
      [] mode = "hybrid" ->
            IF q.type = "NoneType"
            THEN [ok |-> FALSE, results |-> <<>>,
                  err |-> Error("ValueError", "Query is required for hybrid search")]
            ELSE IF "threshold" \in DOMAIN kwargs
            THEN [ok |-> FALSE, results |-> <<>>,
                  err |-> Error("TypeError", "unexpected keyword argument 'threshold'")]
            ELSE [ok |-> TRUE, err |-> NoError, results |-> hybrid_search(results)]
      [] OTHER ->
            [ok |-> FALSE, results |-> <<>>,
             err |-> Error("ValueError", "Invalid search mode")]

(* What client.search may hand back: the k-th hit is point k-1, any scores *)
HitLists ==
    {[k \in 1..Len(ss) |-> [id |-> k - 1, score |-> ss[k], payload |-> Payload(k - 1)]] :
        ss \in SeqsUpTo(Scores, MaxHits)}


-----------------------------------------------------------------------------
(* Response pipeline: RAGPipeline.generate_response *)

SearchThreshold == 65
SearchLimit     == 3

(* Answers are texts built from fragments *)
greeting_responses == << <<"greeting_1">>, <<"greeting_2">>, <<"greeting_3">> >>
fallback_responses == << <<"fallback_1">>, <<"fallback_2">>, <<"fallback_3">> >>

Apology(e) == <<"Sorry, I encountered an error. Please try again later. (Error: ", e.text, ")">>

(* What the collaborators may do *)
EmbeddingOutcomes ==
    {[ok |-> TRUE,  err |-> NoError],
     [ok |-> FALSE, err |-> Error("EmbeddingServiceError", "embedding quota exceeded")]}
ClientSearchOutcomes ==
    {[ok |-> TRUE, hits |-> h, err |-> NoError] : h \in HitLists}
    \cup {[ok |-> FALSE, hits |-> <<>>, err |-> Error("VectorStoreError", "vector store timed out")]}
LLMOutcomes ==
    {[ok |-> TRUE,  text |-> <<"llm answer a">>, err |-> NoError],
     [ok |-> TRUE,  text |-> <<"llm answer b">>, err |-> NoError],
     [ok |-> TRUE,  text |-> <<>>, err |-> NoError],       \* the empty string
     [ok |-> TRUE,  text |-> <<" ">>, err |-> NoError],    \* white space only
     [ok |-> FALSE, text |-> <<>>, err |-> Error("LLMServiceError", "llm request timed out")]}

MetadataGet(md, key, default) == IF key \in DOMAIN md THEN md[key] ELSE default

format_context(results) ==
    [k \in 1..Len(results) |->
        [match     |-> k,
         relevance |-> results[k].score,
         question  |-> results[k].text,
         answer    |-> MetadataGet(results[k].metadata, "answer", "No specific answer found"),
         source    |-> MetadataGet(results[k].metadata, "source", "General Knowledge")]]

EmbedCall(q, o)    == [fn |-> "embed", ok |-> o.ok, err |-> o.err, args |-> [text |-> q]]
SearchCall(o, results) ==
    [fn |-> "search", ok |-> o.ok, err |-> o.err,
     args |-> [mode |-> "semantic", threshold |-> SearchThreshold, limit |-> SearchLimit,
               candidates |-> o.hits, results |-> results]]
LLMCall(q, ctx, o) == [fn |-> "llm", ok |-> o.ok, err |-> o.err,
                       args |-> [question |-> q, context |-> ctx]]

Return(resp, cs, br) == [kind |-> "return", response |-> resp, err |-> NoError,
                         calls |-> cs, branch |-> br]
Raise(e, cs)         == [kind |-> "raise", response |-> NoResponse, err |-> e,
                         calls |-> cs, branch |-> "none"]

Reverse(seq) == [k \in 1..Len(seq) |-> seq[Len(seq) + 1 - k]]

(* Generate, but citing the sources in the opposite order *)
GenerateReversed(q, cs, results) ==
    {LET cs2 == Append(cs, LLMCall(q, format_context(results), l))
     IN  IF l.ok
         THEN Return([answer |-> l.text, sources |-> Reverse(results)], cs2, "llm")
         ELSE Raise(l.err, cs2) : l \in LLMOutcomes}

(* lines 95-104: context, the one language-model call, the final return *)
Generate(q, cs, results) ==
    {LET cs2 == Append(cs, LLMCall(q, format_context(results), l))
     IN  IF l.ok
         THEN Return([answer |-> l.text, sources |-> results], cs2, "llm")
         ELSE Raise(l.err, cs2) : l \in LLMOutcomes}

(* Retrieve without the "if not results" short-circuit *)
RetrieveNoFallback(q, cs) ==
    UNION {LET found   == search(s.hits, q, "semantic",
                                 [threshold |-> SearchThreshold, limit |-> SearchLimit])
               results == found.results
               cs2     == Append(cs, SearchCall(s, IF s.ok THEN results ELSE <<>>))
           IN  IF ~s.ok THEN {Raise(s.err, cs2)}
               ELSE IF ~found.ok THEN {Raise(found.err, cs2)}
               ELSE Generate(q, cs2, results) : s \in ClientSearchOutcomes}

(* lines 80-93: the search and the no-results fallback *)
Retrieve(q, cs) ==
    UNION {LET found   == search(s.hits, q, "semantic",
                                 [threshold |-> SearchThreshold, limit |-> SearchLimit])
               results == found.results
               cs2     == Append(cs, SearchCall(s, IF s.ok THEN results ELSE <<>>))
           IN  IF ~s.ok THEN {Raise(s.err, cs2)}
               ELSE IF ~found.ok THEN {Raise(found.err, cs2)}
               ELSE IF results = <<>>
               THEN {Return([answer |-> fallback_responses[k], sources |-> <<>>], cs2, "fallback") :
                        k \in DOMAIN fallback_responses}
               ELSE Generate(q, cs2, results) : s \in ClientSearchOutcomes}

(* The try block, but searching even when the embedding call has failed *)
TryBodySearchAfterFailedEmbed(q) ==
    IF q.type # "str"
    THEN {Raise(Error("AttributeError", "'NoneType' object has no attribute 'lower'"), <<>>)}
    ELSE IF is_greeting(q.chars)
    THEN {Return([answer |-> greeting_responses[k], sources |-> <<>>], <<>>, "greeting") :
             k \in DOMAIN greeting_responses}
    ELSE UNION {Retrieve(q, <<EmbedCall(q, e)>>) : e \in EmbeddingOutcomes}

(* lines 71-104: the body of the try block; every way it can end *)
TryBody(q) ==
    IF q.type # "str"
    THEN {Raise(Error("AttributeError", "'NoneType' object has no attribute 'lower'"), <<>>)}
    ELSE IF is_greeting(q.chars)
    THEN {Return([answer |-> greeting_responses[k], sources |-> <<>>], <<>>, "greeting") :
             k \in DOMAIN greeting_responses}
    ELSE UNION {LET cs == <<EmbedCall(q, e)>>
                IN  IF e.ok THEN Retrieve(q, cs) ELSE {Raise(e.err, cs)} :
                    e \in EmbeddingOutcomes}

(* An except clause that catches ValueError only *)
ExceptValueError(o) ==
    IF o.kind = "raise" /\ o.err.type = "ValueError"
    THEN Return([answer |-> Apology(o.err), sources |-> <<>>], o.calls, "error")
    ELSE o

(* lines 106-110: except Exception as e *)
ExceptException(o) ==
    IF o.kind = "raise"
    THEN Return([answer |-> Apology(o.err), sources |-> <<>>], o.calls, "error")
    ELSE o

GenerateResponse ==
    /\ pc = "start"
    /\ \E body \in TryBody(query) :
          LET o == ExceptException(body)
          IN  /\ pc' = IF o.kind = "return" THEN "returned" ELSE "raised"
              /\ response' = o.response
              /\ raised' = o.err
              /\ calls' = o.calls
              /\ branch' = o.branch
    /\ UNCHANGED <<query, searchVars, memVars, uploadVars, collectionVars, chatVars>>

-----------------------------------------------------------------------------
(* semantic_search as a function of its arguments and the store's answer *)

MaxLimit   == 3
Thresholds == {0, 65, 70, 100}

SemanticSearch ==
    /\ spc = "start"
    /\ spc' = "returned"
    /\ filtered_results' = semantic_search(hits, threshold, limit)
    /\ UNCHANGED <<threshold, limit, hits, collection_scores, ragVars, memVars, uploadVars, collectionVars, chatVars>>

(* semantic_search against a collection: client.search ranks the points and  *)
(* hands back the first limit*2                                              *)
MaxPoints == 4

PointIds(scores) == {k - 1 : k \in DOMAIN scores}

(* The orders the store may rank the points in: descending score, points of *)
(* equal score in any order                                                  *)
RECURSIVE Rankings(_, _)
Rankings(scores, ids) ==
    IF ids = {} THEN {<<>>}
    ELSE UNION {{<<i>> \o r : r \in Rankings(scores, ids \ {i})} :
                   i \in {j \in ids : \A m \in ids : scores[j + 1] >= scores[m + 1]}}

(* client.search(limit=k, with_payload=True): the first k of the ranking *)
client_search(scores, ranking, k) ==
    [j \in 1..Min(k, Len(ranking)) |->
        [id |-> ranking[j], score |-> scores[ranking[j] + 1], payload |-> Payload(ranking[j])]]

SemanticSearchOnCollection ==
    /\ spc = "start"
    /\ \/ \E ranking \in Rankings(collection_scores, PointIds(collection_scores)) :
             LET results == client_search(collection_scores, ranking, limit * 2)
             IN  /\ hits' = results
                 /\ filtered_results' = semantic_search(results, threshold, limit)
                 /\ spc' = "returned"
       \/ /\ spc' = "raised"      \* client.search raised; nothing catches it here
          /\ UNCHANGED <<hits, filtered_results>>
    /\ UNCHANGED <<threshold, limit, collection_scores, ragVars, memVars, uploadVars, collectionVars, chatVars>>

-----------------------------------------------------------------------------
(* Conversation store: RedisMemory, and ConversationMemory.get_history *)

MaxHistory == 2
MaxTicks   == 2
Retention  == 604800
TickSeconds == Retention \div 2

Sessions       == {"s1", "s2"}
UserTexts      == {"", "q1", "q2"}
AssistantTexts == {"", "a1"}

(* A key shared by all sessions *)
KeyShared(session_id) == <<"ecom_chat:", "default">>

Key(session_id) == <<"ecom_chat:", session_id>>
Keys == {Key(s) : s \in Sessions}

(* Python values crossing the store's boundary *)
PyBool(b)   == [kind |-> "bool", value |-> b]
PyList(l)   == [kind |-> "list", value |-> l]
PyDict(d)   == [kind |-> "dict", value |-> d]
PyNone      == [kind |-> "none", value |-> FALSE]
PyRaised(e) == [kind |-> "raise", value |-> e]

IntLimit(n) == [type |-> "int", v |-> n]
NoneLimit   == [type |-> "NoneType", v |-> 0]
StrLimit    == [type |-> "str", v |-> 0]
Limits      == {NoneLimit, StrLimit} \cup {IntLimit(n) : n \in {0, 1, MaxHistory + 1}}

NoExpiry    == [set |-> FALSE, at |-> 0]
ExpireAt(t) == [set |-> TRUE, at |-> t]

Op(name, s, u, a, lim, backend) ==
    [op |-> name, session |-> s, user |-> u, assistant |-> a, limit |-> lim,
     backend |-> backend]
NoOp == Op("none", "", "", "", NoneLimit, "ok")

(* json.dumps of the message dict, and json.loads of that text *)
json_dumps(message) ==
    << <<"timestamp", message.timestamp>>, <<"user", message.user>>,
       <<"assistant", message.assistant>> >>

json_loads(text) ==
    [name \in {text[k][1] : k \in DOMAIN text} |->
        text[CHOOSE k \in DOMAIN text : text[k][1] = name][2]]

(* The backend's list commands, on the list stored under one key *)
lpush(list, value) == <<value>> \o list

rpush(list, value) == Append(list, value)
lrange_all(list)   == list
lindex_last(list)  == IF list = <<>> THEN PyNone ELSE PyDict(list[Len(list)])

(* Python's seq[start:] *)
SliceFrom(seq, start) ==
    LET n    == Len(seq)
        from == IF start < 0
                THEN (IF n + start < 0 THEN 0 ELSE n + start)
                ELSE (IF start > n THEN n ELSE start)
    IN  SubSeq(seq, from + 1, n)

Decode(list) == [k \in DOMAIN list |-> json_loads(list[k])]

(* redis_memory.py line 91, given the decoded history *)
history_slice(history, lim) ==
    CASE lim.type = "NoneType" -> PyList(history)
      [] lim.type = "int"      -> PyList(SliceFrom(history, 0 - lim.v))
      [] OTHER                 -> PyRaised(Error("TypeError", "bad operand type for unary -: 'str'"))

(* memory.py lines 30-32: the same slice, with no try around it *)
ConversationMemory_get_history(conversation_history, lim) ==
    IF lim.type # "NoneType"
    THEN history_slice(conversation_history, lim)
    ELSE PyList(conversation_history)

NothingAdded == [set |-> FALSE, session |-> "", user |-> "", assistant |-> "", at |-> 0]

(* What the operation that has just returned leaves for the next one to see *)
Remember ==
    just_added' =
        IF mop.op = "add_message" /\ mret.kind = "bool" /\ mret.value
        THEN [set |-> TRUE, session |-> mop.session, user |-> mop.user,
              assistant |-> mop.assistant, at |-> now]
        ELSE NothingAdded

RECURSIVE SumLen(_)
SumLen(ks) ==
    IF ks = {} THEN 0
    ELSE LET k == CHOOSE x \in ks : TRUE IN Len(redis[k]) + SumLen(ks \ {k})

(* Turns held by the backend, over all sessions *)
StoredTurns == SumLen(Keys)

(* lines 52-71, on the list and the expiry of the session's key; `empty` is  *)
(* the empty text, t the time of the call, backend what the two commands do  *)
add_message(list, expiry, user_message, assistant_response, empty, t, backend) ==
    IF user_message = empty \/ assistant_response = empty
    THEN [list |-> list, expiry |-> expiry,
          ret |-> PyRaised(Error("ValueError", "Messages cannot be empty"))]
    ELSE LET message == [timestamp |-> t, user |-> user_message,
                         assistant |-> assistant_response]
         IN  [list   |-> IF backend = "rpush_error" THEN list
                         ELSE rpush(list, json_dumps(message)),
              expiry |-> IF backend = "ok" THEN ExpireAt(t + Retention) ELSE expiry,
              ret    |-> PyBool(backend = "ok")]

Backends(user_message, assistant_response, empty) ==
    IF user_message = empty \/ assistant_response = empty
    THEN {"ok"}
    ELSE {"ok", "rpush_error", "expire_error"}

AddMessage(s, user_message, assistant_response) ==
    /\ (user_message # "" /\ assistant_response # "") => StoredTurns < MaxHistory
    /\ \E backend \in Backends(user_message, assistant_response, "") :
          LET out == add_message(redis[Key(s)], ttl[Key(s)], user_message,
                                 assistant_response, "", now, backend)
          IN  /\ mop' = Op("add_message", s, user_message, assistant_response,
                           NoneLimit, backend)
              /\ redis' = [redis EXCEPT ![Key(s)] = out.list]
              /\ ttl' = [ttl EXCEPT ![Key(s)] = out.expiry]
              /\ mret' = out.ret
    /\ Remember
    /\ UNCHANGED <<now, ragVars, searchVars, uploadVars, collectionVars, chatVars>>

GetHistory(s, lim) ==
    /\ \E backend \in {"ok", "lrange_error"} :
          /\ mop' = Op("get_history", s, "", "", lim, backend)
          /\ mret' = IF backend = "ok"
                     THEN LET r == history_slice(Decode(lrange_all(redis[Key(s)])), lim)
                          IN  IF r.kind = "raise" THEN PyList(<<>>) ELSE r
                     ELSE PyList(<<>>)
    /\ Remember
    /\ UNCHANGED <<redis, ttl, now, ragVars, searchVars, uploadVars, collectionVars, chatVars>>

ClearHistory(s) ==
    /\ \E backend \in {"ok", "delete_error"} :
          /\ mop' = Op("clear_history", s, "", "", NoneLimit, backend)
          /\ redis' = IF backend = "ok" THEN [redis EXCEPT ![Key(s)] = <<>>] ELSE redis
          /\ ttl' = IF backend = "ok" THEN [ttl EXCEPT ![Key(s)] = NoExpiry] ELSE ttl
          /\ mret' = PyBool(backend = "ok" /\ redis[Key(s)] # <<>>)
    /\ Remember
    /\ UNCHANGED <<now, ragVars, searchVars, uploadVars, collectionVars, chatVars>>

GetLastMessage(s) ==
    /\ \E backend \in {"ok", "lindex_error"} :
          /\ mop' = Op("get_last_message", s, "", "", NoneLimit, backend)
          /\ mret' = IF backend = "ok"
                     THEN LET last_msg == lindex_last(redis[Key(s)])
                          IN  IF last_msg.kind = "none" THEN PyNone
                              ELSE PyDict(json_loads(last_msg.value))
                     ELSE PyNone
    /\ Remember
    /\ UNCHANGED <<redis, ttl, now, ragVars, searchVars, uploadVars, collectionVars, chatVars>>

(* Time passes; the backend drops every key whose expiry has come *)
Tick ==
    /\ now + TickSeconds <= MaxTicks * TickSeconds
    /\ now' = now + TickSeconds
    /\ LET expired == {k \in Keys : ttl[k].set /\ ttl[k].at <= now'}
       IN  /\ redis' = [k \in Keys |-> IF k \in expired THEN <<>> ELSE redis[k]]
           /\ ttl' = [k \in Keys |-> IF k \in expired THEN NoExpiry ELSE ttl[k]]
    /\ mop' = Op("tick", "", "", "", NoneLimit, "ok")
    /\ mret' = PyNone
    /\ Remember
    /\ UNCHANGED <<ragVars, searchVars, uploadVars, collectionVars, chatVars>>

MemNext ==
    \/ \E s \in Sessions, u \in UserTexts, a \in AssistantTexts : AddMessage(s, u, a)
    \/ \E s \in Sessions, lim \in Limits : GetHistory(s, lim)
    \/ \E s \in Sessions : ClearHistory(s)
    \/ \E s \in Sessions : GetLastMessage(s)
    \/ Tick

-----------------------------------------------------------------------------
(* Vector store adapter: clean_metadata and upload_data *)

MaxRecords == 3
MaxUploads == 2
BatchSizes == {0 - 1, 0, 1, 2}

(* Python values found in metadata *)
PyStr(chars)  == [type |-> "str", val |-> chars]
PyInt(chars)  == [type |-> "int", val |-> chars]
NumpyInt(chars) == [type |-> "numpy.int64", val |-> chars]
Digits == {"0", "1", "2", "3", "4", "5", "6", "7", "8", "9"}

(* value.replace('.', '', 1) *)
DropFirstDot(chars) ==
    LET dots == {k \in DOMAIN chars : chars[k] = "."}
    IN  IF dots = {} THEN chars
        ELSE LET d == CHOOSE k \in dots : \A j \in dots : k <= j
             IN  SubSeq(chars, 1, d - 1) \o SubSeq(chars, d + 1, Len(chars))

isdigit(chars) == chars # <<>> /\ \A k \in DOMAIN chars : chars[k] \in Digits

clean_value(value) ==
    CASE value.type = "NoneType" -> value
      [] value.type = "numpy.int64" -> [value EXCEPT !.type = "int"]
      [] value.type = "numpy.float64" -> [value EXCEPT !.type = "float"]
      [] value.type = "str" ->
            IF isdigit(DropFirstDot(value.val))
            THEN [value EXCEPT !.type = IF \E k \in DOMAIN value.val : value.val[k] = "."
                                        THEN "float" ELSE "int"]
            ELSE value
      [] value.type \in {"int", "float", "bool"} -> value
      [] OTHER -> [value EXCEPT !.type = "str"]

clean_metadata(metadata) == [key \in DOMAIN metadata |-> clean_value(metadata[key])]

(* {"text": text, **metadata}: a "text" key of the metadata wins *)
MakePayload(text, metadata) ==
    [key \in {"text"} \cup DOMAIN metadata |->
        IF key \in DOMAIN metadata THEN metadata[key] ELSE text]

(* zip(a, b): as long as the shorter *)
Zip(a, b) == [k \in 1..Min(Len(a), Len(b)) |-> <<a[k], b[k]>>]

(* seq[i:i+n] for 0 <= i, 0 <= n *)
Slice(seq, i, n) == SubSeq(seq, Min(i, Len(seq)) + 1, Min(i + n, Len(seq)))

(* Test data: record i of call c is recognisable *)
TextOf(c, i)      == PyStr(<<"text", c, i>>)
EmbeddingOf(c, i) == <<"vector", c, i>>
MetadataOf(c, i)  ==
    [category          |-> PyStr(<<"f", "a", "q">>),
     original_question |-> PyStr(<<"1", ".", "5">>),
     chunk_num         |-> NumpyInt(<<"1">>),
     total_chunks      |-> PyInt(<<"1">>)]

UploadArgs(c, n, m, batch_size) ==
    [call       |-> c,
     texts      |-> [k \in 1..n |-> TextOf(c, k - 1)],
     embeddings |-> [k \in 1..m |-> EmbeddingOf(c, k - 1)],
     metadatas  |-> [k \in 1..n |-> MetadataOf(c, k - 1)],
     batch_size |-> batch_size]
NoUpload == UploadArgs(0, 0, 0, 1)

Payloads(args) ==
    LET cleaned_metadatas == [k \in DOMAIN args.metadatas |-> clean_metadata(args.metadatas[k])]
        pairs == Zip(args.texts, cleaned_metadatas)
    IN  [k \in DOMAIN pairs |-> MakePayload(pairs[k][1], pairs[k][2])]

(* lines 118-128: the points of the batch that starts at record i *)
BatchPoints(args, i) ==
    LET pairs == Zip(Slice(args.embeddings, i, args.batch_size),
                     Slice(Payloads(args), i, args.batch_size))
    IN  [k \in DOMAIN pairs |-> [id |-> i + k - 1, vector |-> pairs[k][1], payload |-> pairs[k][2]]]

(* client.upload_points: an upsert by id *)
upload_points(pts, batch) ==
    LET ids == {batch[k].id : k \in DOMAIN batch}
    IN  [id \in DOMAIN pts \cup ids |->
            IF id \in ids
            THEN LET k == CHOOSE j \in DOMAIN batch : batch[j].id = id
                 IN  [vector |-> batch[k].vector, payload |-> batch[k].payload]
            ELSE pts[id]]

UploadError == Error("VectorStoreError", "upload_points failed")

(* range(0, len(embeddings), batch_size), for batch_size > 0 *)
BatchStarts(args) ==
    {i \in 0..Len(args.embeddings) : i % args.batch_size = 0 /\ i < Len(args.embeddings)}

(* The loop from record i on, when upload_points fails at the batch that     *)
(* starts at fail_at (after storing the first `stored` points of it), but    *)
(* the except clause does not re-raise.                                      *)
RECURSIVE UploadLoopKeepGoing(_, _, _, _, _, _)
UploadLoopKeepGoing(args, i, pts, log, fail_at, stored) ==
    IF i >= Len(args.embeddings)
    THEN [points |-> pts, log |-> log, ret |-> PyNone]
    ELSE LET batch == BatchPoints(args, i)
         IN  IF i = fail_at
             THEN UploadLoopKeepGoing(args, i + args.batch_size,
                      upload_points(pts, SubSeq(batch, 1, Min(stored, Len(batch)))),
                      Append(log, [start |-> i, points |-> batch, ok |-> FALSE]),
                      fail_at, stored)
             ELSE UploadLoopKeepGoing(args, i + args.batch_size, upload_points(pts, batch),
                      Append(log, [start |-> i, points |-> batch, ok |-> TRUE]),
                      fail_at, stored)

(* lines 117-138: the loop from record i on, when upload_points fails at the *)
(* batch that starts at fail_at, after storing the first `stored` points of  *)
(* that batch (fail_at beyond the records: no failure).                      *)
RECURSIVE UploadLoop(_, _, _, _, _, _)
UploadLoop(args, i, pts, log, fail_at, stored) ==
    IF i >= Len(args.embeddings)
    THEN [points |-> pts, log |-> log, ret |-> PyNone]
    ELSE LET batch == BatchPoints(args, i)
         IN  IF i = fail_at
             THEN [points |-> upload_points(pts, SubSeq(batch, 1, Min(stored, Len(batch)))),
                   log    |-> Append(log, [start |-> i, points |-> batch, ok |-> FALSE]),
                   ret    |-> PyRaised(UploadError)]
             ELSE UploadLoop(args, i + args.batch_size, upload_points(pts, batch),
                             Append(log, [start |-> i, points |-> batch, ok |-> TRUE]),
                             fail_at, stored)

upload_data(args, pts, fail_at, stored) ==
    IF args.batch_size = 0
    THEN [points |-> pts, log |-> <<>>,
          ret |-> PyRaised(Error("ValueError", "range() arg 3 must not be zero"))]
    ELSE IF args.batch_size < 0
    THEN [points |-> pts, log |-> <<>>, ret |-> PyNone]
    ELSE UploadLoop(args, 0, pts, <<>>, fail_at, stored)

(* Where upload_points may fail: at any batch, or at none (the value past    *)
(* the last record); on a collection that does not exist the first batch     *)
(* fails                                                                     *)
UploadFailures(args) ==
    LET starts == IF args.batch_size > 0 THEN BatchStarts(args) ELSE {}
    IN  IF coll_exists \/ starts = {}
        THEN starts \cup {Len(args.embeddings)}
        ELSE {0}

UploadData(n, m, batch_size) ==
    /\ up_count < MaxUploads
    /\ LET args == UploadArgs(up_count + 1, n, m, batch_size)
       IN  \E fail_at \in UploadFailures(args), stored \in 0..1 :
             LET out == upload_data(args, points, fail_at, stored)
             IN  /\ points' = out.points
                 /\ up_log' = out.log
                 /\ up_ret' = out.ret
                 /\ up_args' = args
    /\ up_count' = up_count + 1
    /\ UNCHANGED <<ragVars, searchVars, memVars, collectionVars, chatVars>>

UploadNext == \E n, m \in 0..MaxRecords, batch_size \in BatchSizes : UploadData(n, m, batch_size)

-----------------------------------------------------------------------------
(* Chat loop: main, from the submitted prompt to the saved turn              *)
(* (src/main.py lines 178-202)                                               *)

MaxPrompts == 2

(* st.chat_input hands back a non-empty str, or nothing *)
ChatPrompts == {Str(<<"H", "i">>), Str(<<"x">>)}
ChatSession == "s1"

(* str.split(): the words of a text, white space dropped *)
split(text) == SelectSeq(text, LAMBDA w : w # " ")

Bubble(words, sources, error) == [markdown |-> words, sources |-> sources, error |-> error]
NoBubble == Bubble(<<>>, 0, <<>>)

Save(assistant, backend, ret) == [assistant |-> assistant, backend |-> backend, ret |-> ret]

(* lines 99-119 and 189-195: the words streamed into the placeholder, and    *)
(* the sources expander                                                      *)
generate_and_display_response(resp) ==
    Bubble(split(resp.answer), Len(resp.sources), <<>>)

(* lines 185-198: the try block up to the first save; an exception of the   *)
(* pipeline call would skip the save                                         *)
FirstSave(list, expiry, prompt, o, t, b1) ==
    IF o.kind = "raise"
    THEN [list |-> list, expiry |-> expiry, ret |-> PyRaised(o.err)]
    ELSE add_message(list, expiry, prompt.chars, o.response.answer, <<>>, t, b1)

(* The save of lines 197-202, but with an except clause that only reports *)
SaveTurnNoRetry(list, expiry, prompt, o, t, b1, b2) ==
    LET first == FirstSave(list, expiry, prompt, o, t, b1)
    IN  IF first.ret.kind # "raise"
        THEN [list |-> first.list, expiry |-> first.expiry, error |-> <<>>,
              saves |-> <<Save(o.response.answer, b1, first.ret)>>, raised |-> FALSE]
        ELSE [list |-> first.list, expiry |-> first.expiry,
              error |-> <<"Something went wrong: ", first.ret.value.text>>,
              saves |-> <<Save(o.response.answer, "none", first.ret)>>, raised |-> FALSE]

(* lines 197-202: memory.add_message(prompt, response["answer"]); when the   *)
(* try block raises, st.error and memory.add_message(prompt,                 *)
(* f"Error: {str(e)}")                                                       *)
SaveTurn(list, expiry, prompt, o, t, b1, b2) ==
    LET first == FirstSave(list, expiry, prompt, o, t, b1)
    IN  IF first.ret.kind # "raise"
        THEN [list |-> first.list, expiry |-> first.expiry, error |-> <<>>,
              saves |-> <<Save(o.response.answer, b1, first.ret)>>, raised |-> FALSE]
        ELSE LET e      == first.ret.value
                 text   == <<"Error: ", e.text>>
                 second == add_message(first.list, first.expiry, prompt.chars, text,
                                       <<>>, t, b2)
             IN  [list |-> second.list, expiry |-> second.expiry,
                  error |-> <<"Something went wrong: ", e.text>>,
                  saves |-> <<Save(o.response.answer, "none", first.ret),
                              Save(text, IF second.ret.kind = "raise" THEN "none" ELSE b2,
                                   second.ret)>>,
                  raised |-> second.ret.kind = "raise"]

ChatTurn(prompt) ==
    /\ prompts < MaxPrompts
    /\ prompt.type = "str" /\ prompt.chars # <<>>
    /\ \E body \in TryBody(prompt), b1, b2 \in {"ok", "rpush_error", "expire_error"} :
          LET o      == ExceptException(body)
              key    == Key(ChatSession)
              bubble == IF o.kind = "return" THEN generate_and_display_response(o.response)
                        ELSE NoBubble
              saved  == SaveTurn(redis[key], ttl[key], prompt, o, now, b1, b2)
          IN  /\ b1 \in (IF o.kind = "return"
                          THEN Backends(prompt.chars, o.response.answer, <<>>)
                          ELSE {"ok"})
              /\ b2 \in (IF Len(saved.saves) = 2
                          THEN Backends(prompt.chars, saved.saves[2].assistant, <<>>)
                          ELSE {"ok"})
              /\ query' = prompt
              /\ response' = o.response
              /\ branch' = o.branch
              /\ shown' = Bubble(bubble.markdown, bubble.sources, saved.error)
              /\ saves' = saved.saves
              /\ redis' = [redis EXCEPT ![key] = saved.list]
              /\ ttl' = [ttl EXCEPT ![key] = saved.expiry]
    /\ prompts' = prompts + 1
    /\ UNCHANGED <<pc, raised, calls, now, mop, mret, just_added,
                   searchVars, uploadVars, collectionVars>>

ChatNext == \E prompt \in ChatPrompts : ChatTurn(prompt)

-----------------------------------------------------------------------------
(* Component initialization: init_components (src/main.py) with              *)
(* collection_exists and create_collection                                   *)

MaxInits == 2

InitRun(session_id, probe, found, created, result) ==
    [session |-> session_id, probe |-> probe, found |-> found,
     created |-> created, result |-> result]
NoInit == InitRun("", "none", FALSE, "not called", "none")

(* get_collection: the store's answer when the probe reaches it *)
get_collection(exists, probe) ==
    IF probe = "ok" /\ exists THEN "found" ELSE "raised"

(* lines 61-67: True when get_collection returns; False on any exception,    *)
(* "not found" and a failed request alike                                    *)
collection_exists(exists, probe) ==
    get_collection(exists, probe) = "found"

(* lines 69-86: recreate_collection deletes the collection, then creates it  *)
(* empty; the request may fail before the delete or between the two          *)
create_collection(exists, pts, outcome) ==
    CASE outcome = "ok"            -> [exists |-> TRUE,   points |-> <<>>, raised |-> FALSE]
      [] outcome = "delete_error"  -> [exists |-> exists, points |-> pts,  raised |-> TRUE]
      [] outcome = "create_error"  -> [exists |-> FALSE,  points |-> <<>>, raised |-> TRUE]

InitComponents(session_id) ==
    /\ init_count < MaxInits
    /\ \E probe \in {"ok", "error"} :
          IF collection_exists(coll_exists, probe)
          THEN \E components \in {"ready", "stopped"} :
                  /\ init_ret' = InitRun(session_id, probe, TRUE, "not called", components)
                  /\ UNCHANGED <<coll_exists, points>>
          ELSE \E outcome \in {"ok", "delete_error", "create_error"},
                  components \in {"ready", "stopped"} :
                  LET after == create_collection(coll_exists, points, outcome)
                  IN  /\ coll_exists' = after.exists
                      /\ points' = after.points
                      /\ init_ret' = InitRun(session_id, probe, FALSE, outcome,
                                             IF after.raised THEN "stopped" ELSE components)
    /\ init_count' = init_count + 1
    /\ UNCHANGED <<up_count, up_args, up_log, up_ret, ragVars, searchVars, memVars, chatVars>>

InitNext ==
    \/ \E s \in Sessions : InitComponents(s)
    \/ UploadNext

-----------------------------------------------------------------------------
(* Specifications: one per component, the other components at rest *)

PipelineInit ==
    /\ query \in Queries
    /\ pc = "start"
    /\ response = NoResponse
    /\ raised = NoError
    /\ calls = <<>>
    /\ branch = "none"
    /\ threshold = 0 /\ limit = 0 /\ hits = <<>> /\ spc = "idle" /\ filtered_results = <<>>
    /\ collection_scores = <<>>
    /\ redis = [k \in Keys |-> <<>>] /\ ttl = [k \in Keys |-> NoExpiry] /\ now = 0
    /\ mop = NoOp /\ mret = PyNone /\ just_added = NothingAdded
    /\ points = <<>> /\ up_count = 0 /\ up_args = NoUpload /\ up_log = <<>> /\ up_ret = PyNone
    /\ coll_exists = TRUE /\ init_count = 0 /\ init_ret = NoInit
    /\ prompts = 0 /\ shown = NoBubble /\ saves = <<>>

PipelineNext == GenerateResponse
SpecPipeline == PipelineInit /\ [][PipelineNext]_vars

SearchInit ==
    /\ threshold \in Thresholds
    /\ limit \in 0..MaxLimit
    /\ hits \in HitLists
    /\ spc = "start"
    /\ filtered_results = <<>>
    /\ collection_scores = <<>>
    /\ query = NoneQuery /\ pc = "idle" /\ response = NoResponse /\ raised = NoError
    /\ calls = <<>> /\ branch = "none"
    /\ redis = [k \in Keys |-> <<>>] /\ ttl = [k \in Keys |-> NoExpiry] /\ now = 0
    /\ mop = NoOp /\ mret = PyNone /\ just_added = NothingAdded
    /\ points = <<>> /\ up_count = 0 /\ up_args = NoUpload /\ up_log = <<>> /\ up_ret = PyNone
    /\ coll_exists = TRUE /\ init_count = 0 /\ init_ret = NoInit
    /\ prompts = 0 /\ shown = NoBubble /\ saves = <<>>

SearchNext == SemanticSearch
SpecSearch == SearchInit /\ [][SearchNext]_vars

CollectionSearchInit ==
    /\ threshold \in Thresholds
    /\ limit \in 1..MaxLimit
    /\ collection_scores \in SeqsUpTo(Scores, MaxPoints)
    /\ hits = <<>>
    /\ spc = "start"
    /\ filtered_results = <<>>
    /\ query = NoneQuery /\ pc = "idle" /\ response = NoResponse /\ raised = NoError
    /\ calls = <<>> /\ branch = "none"
    /\ redis = [k \in Keys |-> <<>>] /\ ttl = [k \in Keys |-> NoExpiry] /\ now = 0
    /\ mop = NoOp /\ mret = PyNone /\ just_added = NothingAdded
    /\ points = <<>> /\ up_count = 0 /\ up_args = NoUpload /\ up_log = <<>> /\ up_ret = PyNone
    /\ coll_exists = TRUE /\ init_count = 0 /\ init_ret = NoInit
    /\ prompts = 0 /\ shown = NoBubble /\ saves = <<>>

CollectionSearchNext == SemanticSearchOnCollection
SpecCollectionSearch == CollectionSearchInit /\ [][CollectionSearchNext]_vars

MemInit ==
    /\ redis = [k \in Keys |-> <<>>]
    /\ ttl = [k \in Keys |-> NoExpiry]
    /\ now = 0
    /\ mop = NoOp
    /\ mret = PyNone
    /\ just_added = NothingAdded
    /\ points = <<>> /\ up_count = 0 /\ up_args = NoUpload /\ up_log = <<>> /\ up_ret = PyNone
    /\ coll_exists = TRUE /\ init_count = 0 /\ init_ret = NoInit
    /\ prompts = 0 /\ shown = NoBubble /\ saves = <<>>
    /\ query = NoneQuery /\ pc = "idle" /\ response = NoResponse /\ raised = NoError
    /\ calls = <<>> /\ branch = "none"
    /\ threshold = 0 /\ limit = 0 /\ hits = <<>> /\ spc = "idle" /\ filtered_results = <<>>
    /\ collection_scores = <<>>

SpecMemory == MemInit /\ [][MemNext]_vars

UploadInit ==
    /\ points = <<>>
    /\ up_count = 0
    /\ up_args = NoUpload
    /\ up_log = <<>>
    /\ up_ret = PyNone
    /\ coll_exists = TRUE /\ init_count = 0 /\ init_ret = NoInit
    /\ prompts = 0 /\ shown = NoBubble /\ saves = <<>>
    /\ query = NoneQuery /\ pc = "idle" /\ response = NoResponse /\ raised = NoError
    /\ calls = <<>> /\ branch = "none"
    /\ threshold = 0 /\ limit = 0 /\ hits = <<>> /\ spc = "idle" /\ filtered_results = <<>>
    /\ collection_scores = <<>>
    /\ redis = [k \in Keys |-> <<>>] /\ ttl = [k \in Keys |-> NoExpiry] /\ now = 0
    /\ mop = NoOp /\ mret = PyNone /\ just_added = NothingAdded

SpecUpload == UploadInit /\ [][UploadNext]_vars

(* A fresh deployment: no collection yet *)
InitComponentsInit ==
    /\ coll_exists = FALSE
    /\ init_count = 0
    /\ init_ret = NoInit
    /\ prompts = 0 /\ shown = NoBubble /\ saves = <<>>
    /\ points = <<>> /\ up_count = 0 /\ up_args = NoUpload /\ up_log = <<>> /\ up_ret = PyNone
    /\ query = NoneQuery /\ pc = "idle" /\ response = NoResponse /\ raised = NoError
    /\ calls = <<>> /\ branch = "none"
    /\ threshold = 0 /\ limit = 0 /\ hits = <<>> /\ spc = "idle" /\ filtered_results = <<>>
    /\ collection_scores = <<>>
    /\ redis = [k \in Keys |-> <<>>] /\ ttl = [k \in Keys |-> NoExpiry] /\ now = 0
    /\ mop = NoOp /\ mret = PyNone /\ just_added = NothingAdded

SpecInit == InitComponentsInit /\ [][InitNext]_vars

(* The app after init_components: an empty session, no prompt yet *)
ChatInit ==
    /\ prompts = 0
    /\ shown = NoBubble
    /\ saves = <<>>
    /\ query = NoneQuery /\ pc = "idle" /\ response = NoResponse /\ raised = NoError
    /\ calls = <<>> /\ branch = "none"
    /\ threshold = 0 /\ limit = 0 /\ hits = <<>> /\ spc = "idle" /\ filtered_results = <<>>
    /\ collection_scores = <<>>
    /\ redis = [k \in Keys |-> <<>>] /\ ttl = [k \in Keys |-> NoExpiry] /\ now = 0
    /\ mop = NoOp /\ mret = PyNone /\ just_added = NothingAdded
    /\ points = <<>> /\ up_count = 0 /\ up_args = NoUpload /\ up_log = <<>> /\ up_ret = PyNone
    /\ coll_exists = TRUE /\ init_count = 0 /\ init_ret = NoInit

SpecChat == ChatInit /\ [][ChatNext]_vars

-----------------------------------------------------------------------------
(* Properties of the response pipeline, checked under SpecPipeline *)

Range(seq) == {seq[k] : k \in DOMAIN seq}

FailedCalls == {k \in DOMAIN calls : ~calls[k].ok}
CallsTo(fn) == {k \in DOMAIN calls : calls[k].fn = fn}

(* C1: generate_response never raises to its caller: whatever the query and  *)
(* whichever of the embedding call, the vector search or the language-model  *)
(* call fails, it returns a response whose answer is the apology string      *)
(* embedding the error's text and whose sources list is empty.               *)
C1_NeverRaises ==
    /\ pc \in {"start", "returned"}
    /\ pc = "returned" =>
          /\ raised = NoError
          /\ response # NoResponse
          /\ \A k \in FailedCalls :
                /\ response = [answer |-> Apology(calls[k].err), sources |-> <<>>]
                /\ response.answer[2] = calls[k].err.text
                /\ branch = "error"

C1_Witness ==
    /\ pc = "returned"
    /\ Len(calls) = 3
    /\ calls[1].ok /\ calls[2].ok /\ ~calls[3].ok
    /\ calls[3].fn = "llm"
    /\ branch = "error"

(* C2: in every returned response, sources is empty whenever the answer came *)
(* from the greeting, fallback or error branch; sources is non-empty only    *)
(* when retrieval returned at least one result and the language-model call   *)
(* completed, and then it is exactly the retrieved list in retrieval order.  *)
C2_SourcesInvariant ==
    pc = "returned" =>
        /\ branch \in {"greeting", "fallback", "error", "llm"}
        /\ branch \in {"greeting", "fallback", "error"} => response.sources = <<>>
        /\ response.sources # <<>> =>
              /\ branch = "llm"
              /\ \E s \in CallsTo("search"), l \in CallsTo("llm") :
                    /\ s < l
                    /\ calls[s].ok /\ calls[l].ok
                    /\ Len(calls[s].args.results) >= 1
                    /\ response.sources = calls[s].args.results
        /\ branch = "llm" => response.sources # <<>>

C2_Witness ==
    /\ pc = "returned"
    /\ branch = "llm"
    /\ Len(response.sources) = 2
    /\ response.sources[1].score # response.sources[2].score

(* The claim's hypothesis, stated on the characters: some greeting phrase    *)
(* occurs in the lowercased text once leading and trailing punctuation and   *)
(* blanks are dropped.                                                       *)
C4_Trimmed(chars) ==
    LET low   == [k \in 1..Len(chars) |-> Lower(chars[k])]
        inner == {k \in 1..Len(low) :
                     /\ \E a \in 1..k : low[a] \notin StripChars
                     /\ \E b \in k..Len(low) : low[b] \notin StripChars}
    IN  [k \in 1..Cardinality(inner) |->
            low[k + Cardinality({j \in 1..Len(low) : j \notin inner /\ \A m \in inner : j < m})]]

C4_ContainsGreeting(chars) ==
    LET t == C4_Trimmed(chars)
    IN  \E g \in DOMAIN greetings, off \in 0..Len(t) :
            /\ off + Len(greetings[g]) <= Len(t)
            /\ \A k \in 1..Len(greetings[g]) : t[off + k] = greetings[g][k]

(* C4: for every query whose lowercased, trimmed text contains a greeting    *)
(* phrase as a substring, the answer is one of the fixed greeting responses, *)
(* sources is empty, and no embedding, search or language-model call is made. *)
C4_GreetingShortCircuit ==
    (pc = "returned" /\ query.type = "str" /\ C4_ContainsGreeting(query.chars)) =>
        /\ response.answer \in Range(greeting_responses)
        /\ response.sources = <<>>
        /\ calls = <<>>
        /\ branch = "greeting"

C4_Witness ==
    /\ pc = "returned"
    /\ query = Str(<<"x", "H", "i">>)
    /\ response.answer = greeting_responses[3]
    /\ calls = <<>>

(* C5: for every non-greeting query whose semantic search (threshold 0.65,   *)
(* limit 3) returns zero results, the answer is one of the fixed fallback    *)
(* responses, sources is empty, and the language model is not invoked.       *)
C5_FallbackOnNoResults ==
    (/\ pc = "returned"
     /\ query.type = "str" /\ ~C4_ContainsGreeting(query.chars)
     /\ \E s \in CallsTo("search") : calls[s].ok /\ calls[s].args.results = <<>>) =>
        /\ response.answer \in Range(fallback_responses)
        /\ response.sources = <<>>
        /\ CallsTo("llm") = {}
        /\ branch = "fallback"
        /\ \A s \in CallsTo("search") :
              calls[s].args.threshold = 65 /\ calls[s].args.limit = 3

C5_Witness ==
    /\ pc = "returned"
    /\ branch = "fallback"
    /\ Len(calls) = 2
    /\ Len(calls[2].args.candidates) = 2
    /\ calls[2].args.results = <<>>

-----------------------------------------------------------------------------
(* Properties of the conversation store, checked under SpecMemory *)

Stored(s)  == redis[Key(s)]
Tail_n(seq, n) == SubSeq(seq, Len(seq) - Min(n, Len(seq)) + 1, Len(seq))

(* The stored JSON texts read as turns, field by field *)
TurnsOf(s) ==
    [k \in DOMAIN Stored(s) |->
        [timestamp |-> Stored(s)[k][1][2], user |-> Stored(s)[k][2][2],
         assistant |-> Stored(s)[k][3][2]]]

(* C6: the conversation store never raises across its boundary: for every    *)
(* argument value (empty user or assistant text included) and every backend  *)
(* outcome, add_message, get_history, clear_history and get_last_message     *)
(* return normally, signalling failure only by False, an empty list or None. *)
C6_StoreNeverRaises ==
    mop.op \in {"add_message", "get_history", "clear_history", "get_last_message"} =>
        mret.kind # "raise"

(* C7: get_history(limit=n) returns the tail of the session: for a history   *)
(* of length L and every n >= 0 (n = 0 and n > L included) the result is the *)
(* last min(n, L) turns in stored order; with limit=None the whole history.  *)
(* Stated for the reads that reach the backend.                              *)
C7_HistoryTail ==
    (mop.op = "get_history" /\ mop.backend = "ok") =>
        LET h == TurnsOf(mop.session)
        IN  /\ mop.limit.type = "NoneType" =>
                  /\ mret.value = h
                  /\ ConversationMemory_get_history(h, mop.limit).value = h
            /\ (mop.limit.type = "int" /\ mop.limit.v >= 0) =>
                  /\ mret.value = Tail_n(h, mop.limit.v)
                  /\ ConversationMemory_get_history(h, mop.limit).value = Tail_n(h, mop.limit.v)

(* C8: round trip: after any sequence of prior operations on a session, a    *)
(* successful add_message(q, a) followed by get_history() on that session    *)
(* yields a sequence whose last element has user = q and assistant = a, and  *)
(* get_last_message() returns that same turn. The reads are those that reach *)
(* the backend: a read the backend fails returns the store's failure signal  *)
(* (an empty list, None), which is no history.                               *)
C8_RoundTrip ==
    (just_added.set /\ mop.session = just_added.session /\ mop.backend = "ok") =>
        LET turn == [timestamp |-> just_added.at, user |-> just_added.user,
                     assistant |-> just_added.assistant]
        IN  /\ (mop.op = "get_history" /\ mop.limit.type = "NoneType") =>
                  /\ mret.kind = "list"
                  /\ mret.value # <<>>
                  /\ mret.value[Len(mret.value)] = turn
            /\ mop.op = "get_last_message" =>
                  /\ mret.kind = "dict"
                  /\ mret.value = turn

C8_Witness ==
    /\ just_added.set
    /\ mop.op = "get_history" /\ mop.session = just_added.session
    /\ mop.backend = "ok" /\ mop.limit.type = "NoneType"
    /\ Len(mret.value) = 2
    /\ mret.value[1].user # mret.value[2].user
    /\ mret.value[2].user = just_added.user

(* C9: a session's history is append-only except for clear: every step that  *)
(* changes a stored sequence is an add_message on that session adding one    *)
(* turn at the tail with the earlier turns unchanged and in order, or a      *)
(* clear_history on that session (or its retention expiry), after which      *)
(* get_history returns the empty sequence; get_history and get_last_message  *)
(* change nothing; operations on one session never change another's.         *)
C9_Step ==
    \A s \in Sessions :
        LET old == Stored(s)
            new == Stored(s)'
        IN  /\ new # old =>
                  \/ /\ mop'.op = "add_message" /\ mop'.session = s
                     /\ Len(new) = Len(old) + 1
                     /\ SubSeq(new, 1, Len(old)) = old
                     /\ TurnsOf(s)'[Len(new)].user = mop'.user
                     /\ TurnsOf(s)'[Len(new)].assistant = mop'.assistant
                  \/ /\ mop'.op = "clear_history" /\ mop'.session = s
                     /\ new = <<>>
                  \/ /\ mop'.op = "tick" /\ ttl[Key(s)].set /\ ttl[Key(s)].at <= now'
                     /\ new = <<>>
            /\ mop'.op \in {"get_history", "get_last_message"} => new = old
            /\ (mop'.op = "get_history" /\ mop'.session = s /\ old = <<>>) =>
                  mret'.value = <<>>

C9_AppendOnly == [][C9_Step]_vars

C9_Witness ==
    /\ mop.op = "add_message" /\ mop.session = "s1" /\ mret.kind = "bool" /\ mret.value
    /\ Len(Stored("s1")) = 2
    /\ TurnsOf("s1")[1].user # TurnsOf("s1")[2].user

-----------------------------------------------------------------------------
(* Properties of semantic_search, checked under SpecSearch *)

(* C3: semantic_search(threshold=t, limit=n) never returns a result with     *)
(* score < t and never returns more than n results, for all t in [0,1] and   *)
(* all n >= 0, whatever candidate list the store returns.                    *)
C3_ThresholdAndLimit ==
    spc = "returned" =>
        /\ \A k \in DOMAIN filtered_results : filtered_results[k].score >= threshold
        /\ Len(filtered_results) <= limit

-----------------------------------------------------------------------------
(* Properties of upload_data, checked under SpecUpload *)

C10_Failed == {j \in DOMAIN up_log : ~up_log[j].ok}

(* Records the call can pair: zip stops at the shortest of the three lists *)
C10_Paired ==
    Min(Len(up_args.embeddings), Min(Len(up_args.texts), Len(up_args.metadatas)))

C10_BatchWellFormed(j) ==
    LET start == up_log[j].start
        pts   == up_log[j].points
        stop  == Min(start + up_args.batch_size, C10_Paired)
    IN  /\ start = (j - 1) * up_args.batch_size
        /\ start < Len(up_args.embeddings)
        /\ Len(pts) = IF stop > start THEN stop - start ELSE 0
        /\ \A k \in DOMAIN pts :
              LET i == start + k - 1
              IN  /\ pts[k].id = i
                  /\ pts[k].vector = up_args.embeddings[i + 1]
                  /\ pts[k].payload["text"] = up_args.texts[i + 1]
                  /\ \A key \in DOMAIN up_args.metadatas[i + 1] :
                        pts[k].payload[key] = clean_value(up_args.metadatas[i + 1][key])

C10_BatchStored(j) ==
    \A k \in DOMAIN up_log[j].points :
        LET pt == up_log[j].points[k]
        IN  /\ pt.id \in DOMAIN points
            /\ points[pt.id] = [vector |-> pt.vector, payload |-> pt.payload]

(* C10: upload_data is non-atomic and non-retrying: records go out in        *)
(* consecutive batches of batch_size, record i with integer id i, embedding  *)
(* i and payload i; when the upload of batch k fails the error propagates to *)
(* the caller, batches 0..k-1 remain stored, batch k is not retried and no   *)
(* batch after k is attempted.                                               *)
C10_UploadBatches ==
    (up_count > 0 /\ up_args.batch_size > 0) =>
        /\ \A j \in DOMAIN up_log : C10_BatchWellFormed(j)
        /\ IF C10_Failed = {}
           THEN /\ up_ret.kind = "none"
                /\ Len(up_log) * up_args.batch_size >= Len(up_args.embeddings)
                /\ \A j \in DOMAIN up_log : C10_BatchStored(j)
           ELSE /\ C10_Failed = {Len(up_log)}
                /\ up_ret.kind = "raise"
                /\ up_ret.value = UploadError
                /\ \A j \in 1..(Len(up_log) - 1) : C10_BatchStored(j)

C10_Witness ==
    /\ up_count = 2
    /\ up_args.batch_size = 1
    /\ Len(up_args.embeddings) = 3 /\ Len(up_args.texts) = 3
    /\ up_ret.kind = "raise"
    /\ Len(up_log) = 2
    /\ up_log[1].ok /\ ~up_log[2].ok
    /\ points[0] = [vector |-> up_args.embeddings[1], payload |-> up_log[1].points[1].payload]

-----------------------------------------------------------------------------
(* Order of the collaborator calls, checked under SpecPipeline *)

CallNames == [k \in DOMAIN calls |-> calls[k].fn]

(* C12: within one generate_response call on a non-greeting query the        *)
(* collaborator calls are sequential and each happens at most once: the      *)
(* embedding call first, then the vector search (semantic mode, threshold    *)
(* 0.65, limit 3), then the language-model call; a step is started only if   *)
(* the previous one returned without error; and the language model is        *)
(* invoked exactly once if and only if the search returned at least one      *)
(* result.                                                                   *)
C12_SequentialCalls ==
    (pc = "returned" /\ query.type = "str" /\ ~C4_ContainsGreeting(query.chars)) =>
        /\ \E n \in 1..3 : CallNames = SubSeq(<<"embed", "search", "llm">>, 1, n)
        /\ \A k \in 1..(Len(calls) - 1) : calls[k].ok
        /\ \A k \in CallsTo("search") :
              /\ calls[k].args.mode = "semantic"
              /\ calls[k].args.threshold = 65
              /\ calls[k].args.limit = 3
        /\ Cardinality(CallsTo("llm")) \in {0, 1}
        /\ (Cardinality(CallsTo("llm")) = 1) <=>
              (\E k \in CallsTo("search") : calls[k].ok /\ calls[k].args.results # <<>>)

C12_Witness ==
    /\ pc = "returned"
    /\ query = Str(<<"x">>)
    /\ CallNames = <<"embed", "search", "llm">>
    /\ calls[3].ok
    /\ Len(calls[2].args.candidates) = 2
    /\ Len(calls[2].args.results) = 1


-----------------------------------------------------------------------------
(* The success flag of add_message, checked under SpecMemory *)

C14_Step ==
    \A s \in Sessions :
        (mop'.op = "add_message" /\ mop'.session = s /\ mret'.kind = "bool") =>
            LET old == Stored(s)
                new == Stored(s)'
            IN  /\ ~mret'.value => new = old
                /\ mret'.value =>
                      /\ Len(new) = Len(old) + 1
                      /\ SubSeq(new, 1, Len(old)) = old
                      /\ TurnsOf(s)'[Len(new)].user = mop'.user
                      /\ TurnsOf(s)'[Len(new)].assistant = mop'.assistant
                      /\ ttl'[Key(s)] = ExpireAt(now' + 604800)
                /\ new # <<>> => ttl'[Key(s)].set

(* C14: the success flag of add_message matches the stored state: when it    *)
(* returns False the session's stored sequence is unchanged, and when it     *)
(* returns True the turn is stored and the session's retention window is     *)
(* reset to 7 days from that append; a failed expiry refresh after a         *)
(* successful push leaves neither a stored turn reported as failed nor a     *)
(* non-empty session without an expiry.                                      *)
C14_FlagMatchesStore == [][C14_Step]_vars


-----------------------------------------------------------------------------
(* Successive uploads, checked under SpecUpload *)

C16_Succeeded(args, ret) ==
    /\ ret.kind = "none"
    /\ args.batch_size > 0
    /\ Len(args.texts) = Len(args.embeddings)
    /\ Len(args.metadatas) = Len(args.embeddings)

C16_Step ==
    (/\ up_count = 1 /\ up_count' = 2
     /\ C16_Succeeded(up_args, up_ret)
     /\ C16_Succeeded(up_args', up_ret')) =>
        LET N == Len(up_args.embeddings)
            M == Len(up_args'.embeddings)
        IN  /\ Cardinality(DOMAIN points) = N
            /\ Cardinality(DOMAIN points') = N + M
            /\ \A id \in DOMAIN points : \E id2 \in DOMAIN points' : points'[id2] = points[id]

(* C16: successive uploads accumulate: after upload_data of N records and a *)
(* second successful upload_data of M records into the same collection, the *)
(* collection holds N + M points and every record of the first upload is    *)
(* still retrievable: ids assigned by different calls never collide.        *)
C16_UploadsAccumulate == [][C16_Step]_vars


-----------------------------------------------------------------------------
(* semantic_search against a ranked collection, checked under                *)
(* SpecCollectionSearch                                                      *)

C15_Qualifying == {id \in PointIds(collection_scores) : collection_scores[id + 1] >= threshold}
C15_Returned   == {filtered_results[k].id : k \in DOMAIN filtered_results}

(* C15: given that the store returns the top limit*2 points in descending    *)
(* score order, semantic_search(threshold=t, limit=n) with n >= 1 returns    *)
(* exactly min(n, number of points of the collection with score >= t)        *)
(* results, and they are the highest-scoring qualifying points, in the       *)
(* store's order: fetching limit*2 never misses a qualifying point while     *)
(* fewer than n results are returned.                                        *)
C15_ExactlyMinResults ==
    (spc = "returned" /\ limit >= 1) =>
        /\ Len(filtered_results) = Min(limit, Cardinality(C15_Qualifying))
        /\ Cardinality(C15_Returned) = Len(filtered_results)
        /\ C15_Returned \subseteq C15_Qualifying
        /\ \A k \in DOMAIN filtered_results :
              /\ filtered_results[k].id = hits[k].id
              /\ filtered_results[k].score = collection_scores[filtered_results[k].id + 1]
              /\ filtered_results[k].text = Payload(filtered_results[k].id).text
              /\ k > 1 => filtered_results[k - 1].score >= filtered_results[k].score
              /\ \A q \in C15_Qualifying \ C15_Returned :
                    collection_scores[q + 1] <= filtered_results[k].score

C15_Witness ==
    /\ spc = "returned"
    /\ limit = 1
    /\ threshold = 65
    /\ collection_scores = <<65, 50, 90, 65>>
    /\ Len(hits) = 2
    /\ Len(filtered_results) = 1
    /\ filtered_results[1].id = 2


-----------------------------------------------------------------------------
(* Component initialization, checked under SpecInit *)

C13_Step ==
    (init_count' = init_count + 1) =>
        /\ init_ret'.created # "not called" => ~coll_exists
        /\ coll_exists => (coll_exists' /\ points' = points)

(* C13: component initialization never destroys an existing collection:     *)
(* init_components calls create_collection (a destructive create-or-replace) *)
(* only when the collection truly does not exist, so a populated collection  *)
(* keeps all its points across any number of initializations, those during   *)
(* which the existence probe fails with a transient error included.          *)
C13_InitKeepsCollection == [][C13_Step]_vars


-----------------------------------------------------------------------------
(* The chat loop, checked under SpecChat *)

C11_Seen(bubble) == bubble.markdown # <<>> \/ bubble.sources > 0 \/ bubble.error # <<>>

C11_Step ==
    (prompts' = prompts + 1) =>
        LET old == Stored(ChatSession)
            new == Stored(ChatSession)'
        IN  /\ C11_Seen(shown')
            /\ Len(new) = Len(old) + 1
            /\ SubSeq(new, 1, Len(old)) = old
            /\ TurnsOf(ChatSession)'[Len(new)].user = query'.chars

C11_PushFailed(attempts) == \E k \in DOMAIN attempts : attempts[k].backend = "rpush_error"

C11_AmendedStep ==
    (prompts' = prompts + 1) =>
        LET old == Stored(ChatSession)
            new == Stored(ChatSession)'
        IN  /\ C11_Seen(shown')
            /\ SubSeq(new, 1, Len(old)) = old
            /\ Len(saves') \in {1, 2}
            /\ (Len(saves') = 2) <=> (response'.answer = <<>>)
            /\ (Len(saves') = 2) => (saves'[1].ret.kind = "raise" /\ shown'.error # <<>>)
            /\ IF C11_PushFailed(saves')
               THEN new = old
               ELSE /\ Len(new) = Len(old) + 1
                    /\ TurnsOf(ChatSession)'[Len(new)].user = query'.chars
                    /\ TurnsOf(ChatSession)'[Len(new)].assistant =
                          IF Len(saves') = 1 THEN response'.answer
                          ELSE <<"Error: ", "Messages cannot be empty">>

=============================================================================
